---------------------------- MODULE Spec2Model ----------------------------
(***************************************************************************)
(* evento: the video analytics producer (app_server.py), its EventManager  *)
(* (event_alert.py) and the Streamlit control surface (ui_server.py),      *)
(* which share a Redis instance and a directory of ROI settings files.     *)
(*                                                                         *)
(* The producer and the control surface are two processes.  Every step     *)
(* below is one access to Redis or to a settings file, or a run of local   *)
(* code between two such accesses; the steps of the two processes          *)
(* interleave freely.                                                      *)
(***************************************************************************)
EXTENDS Integers, Sequences, FiniteSets, TLC

(***************************************************************************)
(* Bounds of the model.                                                    *)
(***************************************************************************)
\* frames the capture source delivers before capture.read() fails
MaxFrames == 2
\* script runs of the control surface (one per widget interaction)
MaxUIRuns == 2
\* distinct ROI settings documents are 0..MaxDoc
MaxDoc == 1
\* frames of the capture source in the frame-log specification
LogFrames == 5
\* method calls in the EventManager specification
MaxCalls == 12

(***************************************************************************)
(* Values.                                                                 *)
(***************************************************************************)
\* prd.exists(key) is false, prd.get(key) is None
Absent == -1
\* os.path.exists(configFile) is false
Missing == -1
\* a settings file opened with 'w' whose json.dump has not finished
Partial == -2
\* the document {'ROI 1':[], ..., 'ROI 5':[]}
EmptyDoc == 0
\* the frame demo/Evento.jpg the start-up code seeds the keys with
Logo == 0
\* maxlen of the stream camera:0
MAXLEN == 1000

Docs == 0..MaxDoc

\* EventManager.eventName
eventName_map == [e \in {0, 1, 2} |->
                    CASE e = 0 -> "EventStat"
                      [] e = 1 -> "AlertStranger"
                      [] e = 2 -> "MonitorVehicle"]

EventNames == {"EventStat", "AlertStranger", "MonitorVehicle"}

\* the string keys of Redis that hold an encoded frame
FrameKeys == EventNames \cup {"img"}

\* the integer the control surface writes to event_type for a selected event
EventCode(name) ==
    CASE name = "EventStat" -> 0
      [] name = "AlertStranger" -> 1
      [] name = "MonitorVehicle" -> 2

\* the integer the control surface writes to app_mode for a selected mode
ModeCode(mode) ==
    CASE mode = "ROI Configuration" -> 1
      [] mode = "Event Alert Stream" -> 2
      [] OTHER -> 0

UIModes == {"ROI Configuration", "Event Alert Stream"}

VARIABLES
    \* ---- Redis
    prd_app_mode,       \* key app_mode (Absent or an integer)
    prd_event_type,     \* key event_type (Absent or an integer)
    prd_frame,          \* keys img, EventStat, AlertStranger, MonitorVehicle
    camera0,            \* stream camera:0, oldest record first
    xid,                \* number of records ever added to camera:0
    \* ---- the ROI settings directory
    files,              \* event name -> Missing, Partial or a document
    \* ---- producer (app_server.py)
    pc,
    app_mode, event_type, app_mode_prev, event_type_prev,
    eventName,          \* the display key
    image,              \* the frame read in this outer iteration
    framesLeft,         \* frames the capture source still holds
    index,              \* frames read so far
    appMetadata,        \* what the last classification returned
    \* ---- EventManager (event_alert.py)
    mgrEventType, contourROI, colorBlink,
    \* ---- control surface (ui_server.py)
    uiPc, uiMode, uiEvent, uiROI, uiLeft, uiView,
    \* ---- history
    calls,              \* classification calls made so far
    blinkHist,          \* colorBlink before each of the last <= 10 calls
    reloads,            \* updateROISettings calls of this polling iteration
    sinceWrite,         \* the records added to camera:0 since the last
                        \* write of event_type: "none" so far, "stale" (one,
                        \* classified under another event type than the
                        \* written one), "fresh" (the last under the written
                        \* one) or "late" (a stale one that was not the first)
    fileVer,            \* event name -> completed writes of its file
    lastDoc,            \* event name -> the last completely written document
    contourVer,         \* fileVer of the file when contourROI was read
    contourFile,        \* the event name whose file contourROI was read from
    snapVer, snapDoc,   \* fileVer and lastDoc when the producer's last
                        \* polling iteration began
    ranHandler,         \* the handler the last classification ran
    detects,            \* detector.predict calls made so far
    \* ---- one handler call in full (the classification specification)
    args,               \* the arguments of the call
    ret                 \* what the call returned, or that it raised

redisVars == <<prd_app_mode, prd_event_type, prd_frame, camera0, xid>>
localVars == <<app_mode, event_type, app_mode_prev, event_type_prev,
               eventName, image, framesLeft, index, appMetadata>>
mgrVars   == <<mgrEventType, contourROI, colorBlink>>
uiVars    == <<uiPc, uiMode, uiEvent, uiROI, uiLeft, uiView>>
histVars  == <<calls, blinkHist, reloads, sinceWrite, fileVer, lastDoc,
               contourVer, contourFile, snapVer, snapDoc, ranHandler>>
handlerVars == <<args, ret>>
vars == <<redisVars, files, pc, localVars, mgrVars, uiVars, histVars,
          handlerVars, detects>>

(***************************************************************************)
(* Redis and file primitives.                                              *)
(***************************************************************************)
Min(a, b) == IF a < b THEN a ELSE b

\* the last n elements of s
LastN(s, n) == IF Len(s) <= n THEN s ELSE SubSeq(s, Len(s) - n + 1, Len(s))

\* XAdd without the eviction
XAddNoEvict(stream, msg, maxlen) == Append(stream, msg)

\* prd.xadd('camera:0', msg, maxlen=...): append, then evict the oldest
\* records beyond maxlen, in one Redis command.  redis-py sends the trim as
\* MAXLEN ~, which evicts whole stream nodes; each record here holds an
\* encoded image, larger than the default byte limit of a node, so every
\* record is a node of its own and the trim is exact.
XAdd(stream, msg, maxlen) == LastN(Append(stream, msg), maxlen)

\* CanLoad with a file that does not exist taken as loadable
CanLoadMissing(fs, eventType) ==
    /\ eventType \in DOMAIN eventName_map
    /\ fs[eventName_map[eventType]] # Partial

\* json.load(open(<configPath>/<eventName[eventType]>.json)) succeeds
CanLoad(fs, eventType) ==
    /\ eventType \in DOMAIN eventName_map
    /\ fs[eventName_map[eventType]] \notin {Missing, Partial}

\* ... and what it returns
LoadROI(fs, eventType) == fs[eventName_map[eventType]]

\* BlinkNext with the wrap one step late
BlinkNextWrapsLate(c) == IF c = 10 THEN 0 ELSE c + 1

\* the colorBlink update that ends each of the three handlers
BlinkNext(c) == IF c + 1 = 10 THEN 0 ELSE c + 1

\* the dispatch of predict_publish on event_type
Handler(eventType) ==
    CASE eventType = 2 -> "monitorVehicle"
      [] eventType = 1 -> "alertStrangerIntrusion"
      [] eventType = 0 -> "findEventStat"
      [] OTHER -> "findEventStat"

\* NeedsReload without the comparison of the event type
NeedsReloadModeOnly(et, etPrev, am, amPrev) == am # amPrev

\* NeedsReload without the comparison of the mode
NeedsReloadEventOnly(et, etPrev, am, amPrev) == et # etPrev

\* the reload condition of the polling loop
NeedsReload(et, etPrev, am, amPrev) == et # etPrev \/ am # amPrev

\* LeavesPolling with the loop left on Streaming (2) only
LeavesPollingOnStreaming(am) == am = 2

\* LeavesPolling with the break taken whatever the mode
LeavesPollingAlways(am) == TRUE

\* the exit condition of the polling loop
LeavesPolling(am) == am # 1

\* What a handler returns for a frame, and the colorBlink it leaves.  The
\* returned image and counts are a function of the handler, the region set,
\* the frame (with its detections) and colorBlink at the call.
RunHandler(h, roi, frame, blink) ==
    [handler |-> h, roi |-> roi, frame |-> frame, blink |-> blink]

\* the metadata and image of the record the start-up code seeds camera:0 with
SeedMsg == [handler |-> "none", roi |-> EmptyDoc, frame |-> Logo, blink |-> 0]

(***************************************************************************)
(* EventManager (event_alert.py).                                          *)
(***************************************************************************)
\* EventManager.getEventName(eventType): a KeyError for an unknown type
CanName(eventType) == eventType \in DOMAIN eventName_map

\* GetEventName with the display key not recomputed
GetEventNameStale(eventType) == eventName

GetEventName(eventType) == eventName_map[eventType]

\* UpdateROISettings with colorBlink reset as in the constructor
UpdateROISettingsResets(eventType) ==
    /\ mgrEventType' = eventType
    /\ contourROI' = LoadROI(files, eventType)
    /\ colorBlink' = 0
    /\ contourVer' = fileVer[eventName_map[eventType]]
    /\ contourFile' = eventName_map[eventType]

\* EventManager.updateROISettings(eventType), when the file can be loaded
UpdateROISettings(eventType) ==
    /\ mgrEventType' = eventType
    /\ contourROI' = LoadROI(files, eventType)
    /\ colorBlink' = colorBlink
    /\ contourVer' = fileVer[eventName_map[eventType]]
    /\ contourFile' = eventName_map[eventType]

\* updateROISettings when json.load or the eventName lookup raises: the
\* assignment to self.eventType is already made
UpdateROISettingsRaises(eventType) ==
    /\ mgrEventType' = eventType
    /\ UNCHANGED <<contourROI, colorBlink, contourVer, contourFile>>

\* One call of findEventStat, alertStrangerIntrusion or monitorVehicle on
\* the frame: the result it returns and the colorBlink step that ends it.
CallHandler(h, frame) ==
    /\ appMetadata' = RunHandler(h, contourROI, frame, colorBlink)
    /\ colorBlink' = BlinkNext(colorBlink)
    /\ ranHandler' = h
    /\ calls' = calls + 1
    /\ blinkHist' = LastN(Append(blinkHist, colorBlink), 10)
    /\ UNCHANGED <<mgrEventType, contourROI, handlerVars, detects>>

(***************************************************************************)
(* One handler call in full: the filter of the detections, the matching    *)
(* of their centres with the regions, and what is drawn.  Scores and the   *)
(* threshold are in hundredths; coordinates are whole pixels, which makes  *)
(* the centre of a bounding box a whole or a half pixel.                   *)
(***************************************************************************)
\* the keys of contourROI in the order of the settings file; the position
\* of a key is indexROI + 1
ROINames == <<"ROI 1", "ROI 2", "ROI 3", "ROI 4", "ROI 5">>
Slots == DOMAIN ROINames

\* EventManager.objects, with the default of objects.get(cls, "Unknown")
ObjectName(cls) ==
    CASE cls = 0 -> "person"
      [] cls = 1 -> "bicycle"
      [] cls = 2 -> "car"
      [] cls = 3 -> "motorcycle"
      [] OTHER -> "Unknown"

\* PassesClass with the person class let through by monitorVehicle too
PassesClassAnyKnown(h, cls) ==
    CASE h = "findEventStat" -> cls > -1
      [] h = "alertStrangerIntrusion" -> cls = 0
      [] h = "monitorVehicle" -> cls \in {0, 1, 2, 3}

\* the class term of expect_boxes in each handler
PassesClass(h, cls) ==
    CASE h = "findEventStat" -> cls > -1
      [] h = "alertStrangerIntrusion" -> cls = 0
      [] h = "monitorVehicle" -> cls = 1 \/ cls = 2 \/ cls = 3

\* PassesScore with a score equal to the threshold let through
PassesScoreOrEqual(score, threshold) == score >= threshold

\* the score term of expect_boxes
PassesScore(score, threshold) == score > threshold

\* np_boxes = np_boxes[expect_boxes, :]
FilterBoxes(h, np_boxes, threshold) ==
    SelectSeq(np_boxes, LAMBDA box : /\ PassesScore(box.score, threshold)
                                     /\ PassesClass(h, box.cls))

\* int(v) for v = n2 / 2: the truncation towards zero
IntOfHalves(n2) == IF n2 >= 0 THEN n2 \div 2 ELSE -((-n2) \div 2)

\* twice pointX and twice pointY: box[2] + ((box[4] - box[2]) / 2), doubled
PointX2(box) == 2 * box.xmin + (box.xmax - box.xmin)
PointY2(box) == 2 * box.ymin + (box.ymax - box.ymin)

\* (int(pointX), int(pointY)), the point handed to cv2.pointPolygonTest
TestedPoint(box) == <<IntOfHalves(PointX2(box)), IntOfHalves(PointY2(box))>>

\* cv2.pointPolygonTest on one edge v0 -> v of an integer contour and an
\* integer point: 0 when the point is found on the edge, 1 when the edge
\* adds to the crossing counter, -1 when it does not
PointPolygonEdge(v0, v, p) ==
    IF \/ (v0[2] <= p[2] /\ v[2] <= p[2])
       \/ (v0[2] > p[2] /\ v[2] > p[2])
       \/ (v0[1] < p[1] /\ v[1] < p[1])
      THEN IF /\ p[2] = v[2]
              /\ \/ p[1] = v[1]
                 \/ /\ p[2] = v0[2]
                    /\ \/ (v0[1] <= p[1] /\ p[1] <= v[1])
                       \/ (v[1] <= p[1] /\ p[1] <= v0[1])
             THEN 0
             ELSE -1
      ELSE LET dist == (p[2] - v0[2]) * (v[1] - v0[1])
                       - (p[1] - v0[1]) * (v[2] - v0[2])
           IN  IF dist = 0 THEN 0
               ELSE IF (IF v[2] < v0[2] THEN -dist ELSE dist) > 0 THEN 1
               ELSE -1

\* the vertex before vertex i of a closed contour
PrevVertex(cnt, i) == cnt[IF i = 1 THEN Len(cnt) ELSE i - 1]

\* cv2.pointPolygonTest(cnt, p, False): 1 inside, 0 on an edge, -1 outside
\* (an odd crossing counter is inside)
PointPolygonTest(cnt, p) ==
    LET edge == [i \in 1..Len(cnt) |->
                    PointPolygonEdge(PrevVertex(cnt, i), cnt[i], p)]
        counter == Cardinality({i \in 1..Len(cnt) : edge[i] = 1})
    IN  IF \E i \in 1..Len(cnt) : edge[i] = 0 THEN 0
        ELSE IF counter % 2 = 0 THEN -1
        ELSE 1

\* IsActive with an empty vertex list taken as a region too
IsActiveAlways(cnt) == TRUE

\* if not list(self.contourROI[whichROI]) == []:
IsActive(cnt) == cnt # <<>>

\* isIntrusion == 1 or isIntrusion == 0
IsIntrusion(cnt, box) == PointPolygonTest(cnt, TestedPoint(box)) \in {0, 1}

\* the detections the inner loop counts for one region, in their order
Matches(cnt, np_boxes) ==
    IF IsActive(cnt)
      THEN SelectSeq(np_boxes, LAMBDA box : IsIntrusion(cnt, box))
      ELSE <<>>

\* varApp
VarApp(regions, np_boxes) ==
    [i \in Slots |-> Len(Matches(regions[i], np_boxes))]

\* the entries results['boxes'] gets for region i
TaggedIn(regions, np_boxes, i) ==
    LET m == Matches(regions[i], np_boxes)
    IN  [k \in 1..Len(m) |-> [box |-> m[k], roi |-> i]]

RECURSIVE TaggedFrom(_, _, _)
\* the entries of regions i, i + 1, ... one after the other
TaggedFrom(regions, np_boxes, i) ==
    IF i > Len(ROINames) THEN <<>>
    ELSE TaggedIn(regions, np_boxes, i) \o TaggedFrom(regions, np_boxes, i + 1)

\* TaggedBoxes with a detection recorded for the first region it is in only
TaggedBoxesOnce(regions, np_boxes) ==
    LET all == TaggedFrom(regions, np_boxes, 1)
    IN  SelectSeq(all, LAMBDA e :
            \A i \in Slots : i < e.roi => ~ (/\ IsActive(regions[i])
                                             /\ IsIntrusion(regions[i], e.box)))

\* results['boxes']
TaggedBoxes(regions, np_boxes) == TaggedFrom(regions, np_boxes, 1)

\* AlertCondition with the vehicle threshold exclusive
AlertConditionAbove(h, count, vehicleThres) ==
    CASE h = "findEventStat" -> count > vehicleThres
      [] h = "alertStrangerIntrusion" -> count # 0
      [] h = "monitorVehicle" -> count = 0

\* the count term of the colour choice before cv2.drawContours
AlertCondition(h, count, vehicleThres) ==
    CASE h = "findEventStat" -> count >= vehicleThres
      [] h = "alertStrangerIntrusion" -> count # 0
      [] h = "monitorVehicle" -> count = 0

\* bColor of the fill: (0,0,255) is "alert", self.ROIColor[whichROI] is
\* "display"
FillColour(h, count, vehicleThres, blink) ==
    IF blink < 5 /\ AlertCondition(h, count, vehicleThres)
      THEN "alert" ELSE "display"

\* whether the handler writes a text line for an active region
HasLabel(h, count) ==
    CASE h = "findEventStat" -> count # 0
      [] h = "alertStrangerIntrusion" -> count # 0
      [] h = "monitorVehicle" -> TRUE

\* the text line of an active region: its kind, its colour and what it
\* names.  The class monitorVehicle names is box[0], box being what the
\* inner loop has left: the last filtered detection.
Label(h, i, count, np_boxes, vehicleThres, blink) ==
    CASE h = "findEventStat" ->
           [roi |-> i, kind |-> "Lane", count |-> count, obj |-> "none",
            colour |-> FillColour(h, count, vehicleThres, blink)]
      [] h = "alertStrangerIntrusion" ->
           [roi |-> i, kind |-> "Stranger Intrusion", count |-> count,
            obj |-> "none",
            colour |-> IF blink < 5 THEN "alert" ELSE "display"]
      [] h = "monitorVehicle" /\ count = 0 ->
           [roi |-> i, kind |-> "No or missing vehicle", count |-> count,
            obj |-> "none",
            colour |-> IF blink < 5 THEN "alert" ELSE "display"]
      [] h = "monitorVehicle" /\ count # 0 ->
           [roi |-> i, kind |-> "My", count |-> count,
            obj |-> ObjectName(np_boxes[Len(np_boxes)].cls),
            colour |-> "display"]

RECURSIVE LabelsFrom(_, _, _, _, _, _)
\* the text lines of regions i, i + 1, ... from top to bottom
LabelsFrom(h, regions, np_boxes, vehicleThres, blink, i) ==
    IF i > Len(ROINames) THEN <<>>
    ELSE LET count == Len(Matches(regions[i], np_boxes))
             rest == LabelsFrom(h, regions, np_boxes, vehicleThres, blink,
                                i + 1)
         IN  IF IsActive(regions[i]) /\ HasLabel(h, count)
               THEN <<Label(h, i, count, np_boxes, vehicleThres, blink)>>
                    \o rest
               ELSE rest

RECURSIVE SumOver(_, _)
\* f[1] + ... + f[n]
SumOver(f, n) == IF n = 0 THEN 0 ELSE f[n] + SumOver(f, n - 1)

\* cv2.moments(cnt) of a contour, each moment times 6: the sums over the
\* edges (Green's formula), all moments left 0 when the signed area is 0,
\* and the sign chosen so that m00 is positive
Moments(cnt) ==
    LET n == Len(cnt)
        dxy == [i \in 1..n |-> PrevVertex(cnt, i)[1] * cnt[i][2]
                               - cnt[i][1] * PrevVertex(cnt, i)[2]]
        a00 == SumOver(dxy, n)
        a10 == SumOver([i \in 1..n |->
                          dxy[i] * (PrevVertex(cnt, i)[1] + cnt[i][1])], n)
        a01 == SumOver([i \in 1..n |->
                          dxy[i] * (PrevVertex(cnt, i)[2] + cnt[i][2])], n)
        sign == IF a00 > 0 THEN 1 ELSE -1
    IN  IF a00 = 0 THEN [m00 |-> 0, m10 |-> 0, m01 |-> 0]
        ELSE [m00 |-> 3 * sign * a00, m10 |-> sign * a10, m01 |-> sign * a01]

\* if (moment["m10"] != moment["m00"]) and (moment["m01"] != moment["m00"]):
CentroidGuard(moment) ==
    moment.m10 # moment.m00 /\ moment.m01 # moment.m00

\* what is drawn for region i when img is given: the colour of the fill
\* ("none" when nothing is filled), whether the index is written at the
\* centroid, and whether the centroid's division is one by zero
Drawn(h, regions, np_boxes, drawContour, vehicleThres, blink, i) ==
    LET cnt == regions[i]
        count == Len(Matches(cnt, np_boxes))
        moment == Moments(cnt)
    IN  IF IsActive(cnt) /\ drawContour
          THEN [fill |-> FillColour(h, count, vehicleThres, blink),
                centroid |-> CentroidGuard(moment),
                zeroDivision |-> CentroidGuard(moment) /\ moment.m00 = 0]
          ELSE [fill |-> "none", centroid |-> FALSE, zeroDivision |-> FALSE]

\* what a call returns that raised: where is "label" (cv2.putText on
\* final_np, which no img has bound), "centroid" (the division) or "return"
\* (final_np_1, which no img has bound)
Raised(where) ==
    [raised |-> where, varApp |-> [i \in Slots |-> 0], boxes |-> <<>>,
     labels |-> <<>>, drawn |-> [i \in Slots |-> [fill |-> "none",
                                                   centroid |-> FALSE,
                                                   zeroDivision |-> FALSE]]]

\* findEventStat, alertStrangerIntrusion or monitorVehicle (h) on the
\* regions of contourROI with the arguments a, colorBlink being blink:
\* (final_np_1, results, varApp), or the exception
HandlerBody(h, regions, a, blink) ==
    LET np_boxes == FilterBoxes(h, a.np_boxes, a.threshold)
        labels == LabelsFrom(h, regions, np_boxes, a.vehicleThres, blink, 1)
        drawn == [i \in Slots |->
                    Drawn(h, regions, np_boxes, a.drawContour,
                          a.vehicleThres, blink, i)]
    IN  IF ~ a.img
          THEN IF labels # <<>> THEN Raised("label") ELSE Raised("return")
          ELSE IF \E i \in Slots : drawn[i].zeroDivision
                 THEN Raised("centroid")
                 ELSE [raised |-> "no",
                       varApp |-> VarApp(regions, np_boxes),
                       boxes |-> TaggedBoxes(regions, np_boxes),
                       labels |-> labels,
                       drawn |-> drawn]

\* whether colorBlink has been stepped when the call ends: an exception in
\* the loop over the regions leaves it as it was
BlinkStepped(r) == r.raised \in {"no", "return"}

(***************************************************************************)
(* The producer: __main__ of app_server.py.                                *)
(***************************************************************************)
\* MainCheckAppMode with the set made whether or not the key exists
MainCheckAppModeAlwaysSets ==
    /\ pc = "main_check_app_mode"
    /\ pc' = "main_set_app_mode"
    /\ UNCHANGED <<redisVars, files, localVars, mgrVars, uiVars, histVars,
                   handlerVars, detects>>

\* if not prd.exists("app_mode"):
MainCheckAppMode ==
    /\ pc = "main_check_app_mode"
    /\ pc' = IF prd_app_mode = Absent THEN "main_set_app_mode"
                                     ELSE "main_check_event_type"
    /\ UNCHANGED <<redisVars, files, localVars, mgrVars, uiVars, histVars,
                   handlerVars, detects>>

\*     prd.set("app_mode", 1)
MainSetAppMode ==
    /\ pc = "main_set_app_mode"
    /\ prd_app_mode' = 1
    /\ pc' = "main_check_event_type"
    /\ UNCHANGED <<prd_event_type, prd_frame, camera0, xid, files, localVars,
                   mgrVars, uiVars, histVars,
                   handlerVars, detects>>

\* if not prd.exists("event_type"):
MainCheckEventType ==
    /\ pc = "main_check_event_type"
    /\ pc' = IF prd_event_type = Absent THEN "main_set_event_type"
                                       ELSE "main_seed_stream"
    /\ UNCHANGED <<redisVars, files, localVars, mgrVars, uiVars, histVars,
                   handlerVars, detects>>

\*     prd.set("event_type", 0)
MainSetEventType ==
    /\ pc = "main_set_event_type"
    /\ prd_event_type' = 0
    /\ sinceWrite' = "none"
    /\ pc' = "main_seed_stream"
    /\ UNCHANGED <<prd_app_mode, prd_frame, camera0, xid, files, localVars,
                   mgrVars, uiVars, calls, blinkHist, reloads, fileVer,
                   lastDoc, contourVer, contourFile, snapVer, snapDoc,
                   ranHandler,
                   handlerVars, detects>>

\* if not prd.exists("camera:0"): prd.xadd('camera:0', msg, maxlen=1000)
MainSeedStream ==
    /\ pc = "main_seed_stream"
    /\ IF camera0 = <<>>
         THEN /\ camera0' = XAdd(camera0, [id |-> xid + 1, msg |-> SeedMsg],
                                 MAXLEN)
              /\ xid' = xid + 1
         ELSE UNCHANGED <<camera0, xid>>
    /\ pc' = "main_seed_frames"
    /\ UNCHANGED <<prd_app_mode, prd_event_type, prd_frame, files, localVars,
                   mgrVars, uiVars, histVars,
                   handlerVars, detects>>

\* if not prd.exists(k): prd.set(k, pic_str), for img and the three events
MainSeedFrames ==
    /\ pc = "main_seed_frames"
    /\ prd_frame' = [k \in FrameKeys |->
                       IF prd_frame[k] = Absent THEN Logo ELSE prd_frame[k]]
    /\ pc' = "init_event_type"
    /\ UNCHANGED <<prd_app_mode, prd_event_type, camera0, xid, files,
                   localVars, mgrVars, uiVars, histVars,
                   handlerVars, detects>>

(***************************************************************************)
(* The producer: predict_publish.                                          *)
(***************************************************************************)
\* event_type = int(prd.get("event_type"))
InitEventType ==
    /\ pc = "init_event_type"
    /\ IF prd_event_type = Absent
         THEN pc' = "crashed" /\ UNCHANGED event_type
         ELSE pc' = "init_app_mode" /\ event_type' = prd_event_type
    /\ UNCHANGED <<redisVars, files, app_mode, app_mode_prev, event_type_prev,
                   eventName, image, framesLeft, index, appMetadata, mgrVars,
                   uiVars, histVars,
                   handlerVars, detects>>

\* app_mode = int(prd.get("app_mode"))
InitAppMode ==
    /\ pc = "init_app_mode"
    /\ IF prd_app_mode = Absent
         THEN pc' = "crashed" /\ UNCHANGED app_mode
         ELSE pc' = "construct" /\ app_mode' = prd_app_mode
    /\ UNCHANGED <<redisVars, files, event_type, app_mode_prev,
                   event_type_prev, eventName, image, framesLeft, index,
                   appMetadata, mgrVars, uiVars, histVars,
                   handlerVars, detects>>

\* event_manager = EventManager(app_config_dir, event_type); eventName, and
\* the two _prev variables
Construct ==
    /\ pc = "construct"
    /\ IF CanLoad(files, event_type)
         THEN /\ UpdateROISettings(event_type)
              /\ eventName' = GetEventName(event_type)
              /\ event_type_prev' = event_type
              /\ app_mode_prev' = app_mode
              /\ pc' = "capture"
         ELSE /\ pc' = "crashed"
              /\ UNCHANGED <<mgrVars, contourVer, contourFile, eventName,
                             event_type_prev, app_mode_prev>>
    /\ UNCHANGED <<redisVars, files, app_mode, event_type, image, framesLeft,
                   index, appMetadata, uiVars, calls, blinkHist, reloads,
                   sinceWrite, fileVer, lastDoc, snapVer, snapDoc,
                   ranHandler,
                   handlerVars, detects>>

\* Capture with the loop left while the source still holds its last frame
CaptureEndsEarly ==
    /\ pc = "capture"
    /\ IF framesLeft <= 1
         THEN pc' = "done" /\ UNCHANGED <<image, framesLeft, index>>
         ELSE /\ pc' = "poll_app_mode"
              /\ image' = index + 1
              /\ index' = index + 1
              /\ framesLeft' = framesLeft - 1
    /\ UNCHANGED <<redisVars, files, app_mode, event_type, app_mode_prev,
                   event_type_prev, eventName, appMetadata, mgrVars, uiVars,
                   histVars,
                   handlerVars, detects>>

\* success, image = capture.read(); if not success: break
Capture ==
    /\ pc = "capture"
    /\ IF framesLeft = 0
         THEN pc' = "done" /\ UNCHANGED <<image, framesLeft, index>>
         ELSE /\ pc' = "poll_app_mode"
              /\ image' = index + 1
              /\ index' = index + 1
              /\ framesLeft' = framesLeft - 1
    /\ UNCHANGED <<redisVars, files, app_mode, event_type, app_mode_prev,
                   event_type_prev, eventName, appMetadata, mgrVars, uiVars,
                   histVars,
                   handlerVars, detects>>

\* app_mode = int(prd.get("app_mode"))
PollAppMode ==
    /\ pc = "poll_app_mode"
    /\ app_mode' = prd_app_mode
    /\ reloads' = 0
    /\ snapVer' = fileVer
    /\ snapDoc' = lastDoc
    /\ pc' = "poll_event_type"
    /\ UNCHANGED <<redisVars, files, event_type, app_mode_prev,
                   event_type_prev, eventName, image, framesLeft, index,
                   appMetadata, mgrVars, uiVars, calls, blinkHist,
                   sinceWrite, fileVer, lastDoc, contourVer, contourFile,
                   ranHandler,
                   handlerVars, detects>>

\* PolledEventType with the value read before the loop kept
PolledEventTypeCached == event_type

\* the event type the poll returns
PolledEventType == prd_event_type

\* event_type = int(prd.get("event_type"))
PollEventType ==
    /\ pc = "poll_event_type"
    /\ event_type' = PolledEventType
    /\ pc' = "reload"
    /\ UNCHANGED <<redisVars, files, app_mode, app_mode_prev, event_type_prev,
                   eventName, image, framesLeft, index, appMetadata, mgrVars,
                   uiVars, histVars,
                   handlerVars, detects>>

\* if event_type != event_type_prev or app_mode != app_mode_prev:
\*     event_manager.updateROISettings(event_type)
\*     eventName = event_manager.getEventName(event_type)
Reload ==
    /\ pc = "reload"
    /\ IF NeedsReload(event_type, event_type_prev, app_mode, app_mode_prev)
         THEN IF CanLoad(files, event_type)
                THEN /\ UpdateROISettings(event_type)
                     /\ eventName' = GetEventName(event_type)
                     /\ reloads' = reloads + 1
                     /\ pc' = "publish"
                ELSE /\ UpdateROISettingsRaises(event_type)
                     /\ pc' = "crashed"
                     /\ UNCHANGED <<eventName, reloads>>
         ELSE /\ pc' = "publish"
              /\ UNCHANGED <<mgrVars, contourVer, contourFile, eventName,
                             reloads>>
    /\ UNCHANGED <<redisVars, files, app_mode, event_type, app_mode_prev,
                   event_type_prev, image, framesLeft, index, appMetadata,
                   uiVars, calls, blinkHist, sinceWrite, fileVer, lastDoc,
                   snapVer, snapDoc, ranHandler,
                   handlerVars, detects>>

\* Publish with the capture read again on every turn of the polling loop
PublishThenCapture ==
    /\ pc = "publish"
    /\ prd_frame' = [prd_frame EXCEPT ![eventName] = image]
    /\ event_type_prev' = event_type
    /\ app_mode_prev' = app_mode
    /\ pc' = IF LeavesPolling(app_mode) THEN "detect" ELSE "capture"
    /\ UNCHANGED <<prd_app_mode, prd_event_type, camera0, xid, files,
                   app_mode, event_type, eventName, image, framesLeft, index,
                   appMetadata, mgrVars, uiVars, histVars,
                   handlerVars, detects>>

\* Publish with the frame set under the name of the event type of the
\* previous poll
PublishPrevKey ==
    /\ pc = "publish"
    /\ prd_frame' = [prd_frame EXCEPT ![eventName_map[event_type_prev]] = image]
    /\ event_type_prev' = event_type
    /\ app_mode_prev' = app_mode
    /\ pc' = IF LeavesPolling(app_mode) THEN "detect" ELSE "poll_app_mode"
    /\ UNCHANGED <<prd_app_mode, prd_event_type, camera0, xid, files,
                   app_mode, event_type, eventName, image, framesLeft, index,
                   appMetadata, mgrVars, uiVars, histVars,
                   handlerVars, detects>>

\* prd.set(eventName, pic_str) with the raw frame; the _prev variables;
\* if app_mode != 1: break
Publish ==
    /\ pc = "publish"
    /\ prd_frame' = [prd_frame EXCEPT ![eventName] = image]
    /\ event_type_prev' = event_type
    /\ app_mode_prev' = app_mode
    /\ pc' = IF LeavesPolling(app_mode) THEN "detect" ELSE "poll_app_mode"
    /\ UNCHANGED <<prd_app_mode, prd_event_type, camera0, xid, files,
                   app_mode, event_type, eventName, image, framesLeft, index,
                   appMetadata, mgrVars, uiVars, histVars,
                   handlerVars, detects>>

\* Detect with the handler's call left out
DetectNoClassify ==
    /\ pc = "detect"
    /\ detects' = detects + 1
    /\ pc' = "append"
    /\ UNCHANGED <<redisVars, files, localVars, mgrVars, uiVars, histVars,
                   handlerVars>>

\* results = detector.predict(image, FLAGS.threshold); visualize_box_mask
Detect ==
    /\ pc = "detect"
    /\ detects' = detects + 1
    /\ pc' = "classify"
    /\ UNCHANGED <<redisVars, files, localVars, mgrVars, uiVars, histVars,
                   handlerVars>>

\* the dispatch on event_type and the handler's call
Classify ==
    /\ pc = "classify"
    /\ CallHandler(Handler(event_type), image)
    /\ pc' = "append"
    /\ UNCHANGED <<redisVars, files, app_mode, event_type, app_mode_prev,
                   event_type_prev, eventName, image, framesLeft, index,
                   uiVars, reloads, sinceWrite, fileVer, lastDoc,
                   contourVer, contourFile, snapVer, snapDoc>>

\* sinceWrite after one more record, classified under another event type
\* than the one event_type holds (stale) or under that one
RecordAfterWrite(sw, stale) ==
    CASE sw = "late" -> "late"
      [] stale /\ sw = "none" -> "stale"
      [] stale /\ sw # "none" -> "late"
      [] OTHER -> "fresh"

\* prd.xadd('camera:0', msg, maxlen=1000); event_type_prev = event_type
AppendRecord ==
    /\ pc = "append"
    /\ camera0' = XAdd(camera0, [id |-> xid + 1, msg |-> appMetadata], MAXLEN)
    /\ xid' = xid + 1
    /\ event_type_prev' = event_type
    /\ sinceWrite' = RecordAfterWrite(sinceWrite, event_type # prd_event_type)
    /\ pc' = "capture"
    /\ UNCHANGED <<prd_app_mode, prd_event_type, prd_frame, files, app_mode,
                   event_type, app_mode_prev, eventName, image, framesLeft,
                   index, appMetadata, mgrVars, uiVars, calls, blinkHist,
                   reloads, fileVer, lastDoc, contourVer, contourFile,
                   snapVer, snapDoc, ranHandler,
                   handlerVars, detects>>

Producer ==
    \/ MainCheckAppMode \/ MainSetAppMode
    \/ MainCheckEventType \/ MainSetEventType
    \/ MainSeedStream \/ MainSeedFrames
    \/ InitEventType \/ InitAppMode \/ Construct
    \/ Capture \/ PollAppMode \/ PollEventType \/ Reload \/ Publish
    \/ Detect \/ Classify \/ AppendRecord

(***************************************************************************)
(* The control surface: one run of the script of ui_server.py.  Streamlit  *)
(* starts a run on every widget interaction, ending a run that loops in    *)
(* streamAlert.                                                            *)
(***************************************************************************)
\* the two selectboxes, then the settings file: created empty when it does
\* not exist, loaded otherwise
UIRun(mode, event) ==
    /\ uiPc \in {"idle", "streaming"}
    /\ uiLeft > 0
    /\ uiLeft' = uiLeft - 1
    /\ uiMode' = mode
    /\ uiEvent' = event
    /\ IF files[event] = Missing
         THEN /\ files' = [files EXCEPT ![event] = EmptyDoc]
              /\ fileVer' = [fileVer EXCEPT ![event] = @ + 1]
              /\ lastDoc' = [lastDoc EXCEPT ![event] = EmptyDoc]
              /\ uiROI' = EmptyDoc
         ELSE /\ uiROI' = files[event]
              /\ UNCHANGED <<files, fileVer, lastDoc>>
    /\ uiPc' = "set_app_mode"
    /\ UNCHANGED <<redisVars, pc, localVars, mgrVars, uiView, calls,
                   blinkHist, reloads, sinceWrite, contourVer, contourFile,
                   snapVer, snapDoc, ranHandler,
                   handlerVars, detects>>

\* UISetAppMode with the selected event's type set in both branches
UISetAppModeAndEventType ==
    /\ uiPc = "set_app_mode"
    /\ prd_app_mode' = ModeCode(uiMode)
    /\ prd_event_type' = EventCode(uiEvent)
    /\ uiPc' = IF uiMode = "ROI Configuration" THEN "config_get"
                                               ELSE "set_event_type"
    /\ UNCHANGED <<prd_frame, camera0, xid, files, pc,
                   localVars, mgrVars, uiMode, uiEvent, uiROI, uiLeft, uiView,
                   histVars,
                   handlerVars, detects>>

\* prd.set("app_mode", 1) or prd.set("app_mode", 2)
UISetAppMode ==
    /\ uiPc = "set_app_mode"
    /\ prd_app_mode' = ModeCode(uiMode)
    /\ uiPc' = IF uiMode = "ROI Configuration" THEN "config_get"
                                               ELSE "set_event_type"
    /\ UNCHANGED <<prd_event_type, prd_frame, camera0, xid, files, pc,
                   localVars, mgrVars, uiMode, uiEvent, uiROI, uiLeft, uiView,
                   histVars,
                   handlerVars, detects>>

\* configureROI: image_string = prd.get(eventType) and its decoding, which
\* raises when the key does not exist
UIConfigGet ==
    /\ uiPc = "config_get"
    /\ uiPc' = IF prd_frame[uiEvent] = Absent THEN "idle" ELSE "config_open"
    /\ uiView' = prd_frame[uiEvent]
    /\ UNCHANGED <<redisVars, files, pc, localVars, mgrVars, uiMode, uiEvent,
                   uiROI, uiLeft, histVars,
                   handlerVars, detects>>

\* UIConfigOpen with the file left whole until the dump replaces it
UIConfigOpenKeepsFile(doc) ==
    /\ uiPc = "config_open"
    /\ uiROI' = doc
    /\ uiPc' = "config_dump"
    /\ UNCHANGED <<redisVars, files, pc, localVars, mgrVars, uiMode, uiEvent,
                   uiLeft, uiView, histVars,
                   handlerVars, detects>>

\* configureROI: the buttons change contourROI (or leave it), then
\* open(<eventType>.json, 'w') truncates the file
UIConfigOpen(doc) ==
    /\ uiPc = "config_open"
    /\ uiROI' = doc
    /\ files' = [files EXCEPT ![uiEvent] = Partial]
    /\ uiPc' = "config_dump"
    /\ UNCHANGED <<redisVars, pc, localVars, mgrVars, uiMode, uiEvent, uiLeft,
                   uiView, histVars,
                   handlerVars, detects>>

\* configureROI: json.dump(contourROI, json_file) and the file's close
UIConfigDump ==
    /\ uiPc = "config_dump"
    /\ files' = [files EXCEPT ![uiEvent] = uiROI]
    /\ fileVer' = [fileVer EXCEPT ![uiEvent] = @ + 1]
    /\ lastDoc' = [lastDoc EXCEPT ![uiEvent] = uiROI]
    /\ uiPc' = "idle"
    /\ UNCHANGED <<redisVars, pc, localVars, mgrVars, uiMode, uiEvent, uiROI,
                   uiLeft, uiView, calls, blinkHist, reloads, sinceWrite,
                   contourVer, contourFile, snapVer, snapDoc, ranHandler,
                   handlerVars, detects>>

\* prd.set("event_type", 0 | 1 | 2) for the selected event
UISetEventType ==
    /\ uiPc = "set_event_type"
    /\ prd_event_type' = EventCode(uiEvent)
    /\ sinceWrite' = "none"
    /\ uiPc' = "streaming"
    /\ UNCHANGED <<prd_app_mode, prd_frame, camera0, xid, files, pc,
                   localVars, mgrVars, uiMode, uiEvent, uiROI, uiLeft, uiView,
                   calls, blinkHist, reloads, fileVer, lastDoc, contourVer,
                   contourFile, snapVer, snapDoc, ranHandler,
                   handlerVars, detects>>

\* streamAlert, one turn of its loop: the break on the argument app_mode
\* (the selectbox's value of this run, not the control plane's key), then
\* resp = prd.xrevrange("camera:0", count=1) and its display; resp[0]
\* raises on an empty stream
UIStreamAlert ==
    /\ uiPc = "streaming"
    /\ IF uiMode # "Event Alert Stream" \/ camera0 = <<>>
         THEN uiPc' = "idle" /\ UNCHANGED uiView
         ELSE uiPc' = "streaming" /\ uiView' = camera0[Len(camera0)].msg.frame
    /\ UNCHANGED <<redisVars, files, pc, localVars, mgrVars, uiMode, uiEvent,
                   uiROI, uiLeft, histVars,
                   handlerVars, detects>>

ControlSurface ==
    \/ \E mode \in UIModes, event \in EventNames : UIRun(mode, event)
    \/ UISetAppMode
    \/ UIConfigGet
    \/ \E doc \in Docs : UIConfigOpen(doc)
    \/ UIConfigDump
    \/ UISetEventType
    \/ UIStreamAlert

(***************************************************************************)
(* The arguments and regions of a handler call.                            *)
(***************************************************************************)
\* the default of the parameter threshold, in hundredths
DefaultThreshold == 50
\* the default of the parameter vehicleThres
DefaultVehicleThres == 5

Handlers == {"findEventStat", "alertStrangerIntrusion", "monitorVehicle"}

\* one row of np_boxes: [class, score, x_min, y_min, x_max, y_max]
Box(cls, score, xmin, ymin, xmax, ymax) ==
    [cls |-> cls, score |-> score, xmin |-> xmin, ymin |-> ymin,
     xmax |-> xmax, ymax |-> ymax]

\* the arguments of a handler call
Args(h, np_boxes, img, drawContour, vehicleThres) ==
    [handler |-> h, np_boxes |-> np_boxes, img |-> img,
     threshold |-> DefaultThreshold, drawContour |-> drawContour,
     vehicleThres |-> vehicleThres]

\* no handler call in full has been made
NoArgs == Args("none", <<>>, FALSE, TRUE, DefaultVehicleThres)
NotCalled == Raised("not called")

\* detection thresholds given on the command line (--threshold, in
\* hundredths): one below the handlers' default, and the default
FlagsThresholds == {30, DefaultThreshold}

\* PipelineArgs with FLAGS.threshold passed on to the handler
PipelineArgsPassesFlags(eventType, results, flagsThreshold) ==
    [Args(Handler(eventType), results, TRUE, TRUE, DefaultVehicleThres)
       EXCEPT !.threshold = flagsThreshold]

\* the dispatch on event_type: the handler and the arguments of its call on
\* results['boxes'] and the frame; FLAGS.threshold, which the detector got,
\* is not among them
PipelineArgs(eventType, results, flagsThreshold) ==
    Args(Handler(eventType), results, TRUE, TRUE, DefaultVehicleThres)

\* the vertex list of an axis-parallel rectangle
Rect(x0, y0, x1, y1) == <<<<x0, y0>>, <<x1, y0>>, <<x1, y1>>, <<x0, y1>>>>

\* Settings documents by their number: what the control surface has saved
\* for 'ROI 1' .. 'ROI 5'.  Document 0 is the one of a new file.
Catalogue ==
    << \* 0: no region
       <<<<>>, <<>>, <<>>, <<>>, <<>>>>,
       \* 1: one square
       <<Rect(0, 0, 2, 2), <<>>, <<>>, <<>>, <<>>>>,
       \* 2: two squares that overlap
       <<Rect(1, 1, 4, 4), Rect(0, 0, 2, 2), <<>>, <<>>, <<>>>>,
       \* 3: a triangle in the third slot, the slots before it empty
       <<<<>>, <<>>, <<<<0, 3>>, <<3, 0>>, <<3, 3>>>>, <<>>, <<>>>>,
       \* 4: a bow-tie, a segment, a self-intersecting quadrilateral whose
       \*    signed areas cancel, and a single vertex
       <<<<<<0, 0>>, <<2, 2>>, <<2, 0>>, <<0, 2>>>>,
         <<<<0, 0>>, <<3, 3>>>>,
         <<<<0, 0>>, <<0, 1>>, <<2, 1>>, <<2, 2>>>>,
         <<>>,
         <<<<1, 1>>>>>>,
       \* 5: five regions that all hold the pixel (2, 2)
       <<Rect(0, 0, 4, 4), Rect(1, 1, 3, 3), Rect(0, 0, 2, 2),
         Rect(2, 2, 4, 4), Rect(1, 0, 2, 4)>> >>

\* the coordinates of the vertices of the triangles below
VertexCoords == 0..2

\* vertex number n of the grid VertexCoords x VertexCoords
GridVertex(n) ==
    <<n % Cardinality(VertexCoords), n \div Cardinality(VertexCoords)>>

\* vertex list number t of three grid vertices
Triangle(t) ==
    LET q == Cardinality(VertexCoords) * Cardinality(VertexCoords)
    IN  <<GridVertex(t % q), GridVertex((t \div q) % q),
          GridVertex(t \div (q * q))>>

\* the numbers of the lists of three different vertices: 'Create Points'
\* adds no vertex the region already has.  The three may be in line.
Triangles ==
    LET q == Cardinality(VertexCoords) * Cardinality(VertexCoords)
    IN  {t \in 0..(q * q * q - 1) :
            Cardinality({Triangle(t)[k] : k \in 1..3}) = 3}

\* the documents of the catalogue, and those that hold one triangle in
\* 'ROI 1'
CatalogueDocs == 0..(Len(Catalogue) - 1)
TriangleDocs == {Len(Catalogue) + t : t \in Triangles}

\* the regions of a settings document, in the order of ROINames
DocRegions(d) ==
    IF d \in CatalogueDocs THEN Catalogue[d + 1]
    ELSE <<Triangle(d - Len(Catalogue)), <<>>, <<>>, <<>>, <<>>>>

(***************************************************************************)
(* Specifications.                                                         *)
(***************************************************************************)
\* what every specification starts from, Redis and the files apart
InitRest ==
    /\ app_mode = 0 /\ event_type = 0
    /\ app_mode_prev = 0 /\ event_type_prev = 0
    /\ eventName = "EventStat"
    /\ image = Logo /\ index = 0
    /\ appMetadata = SeedMsg
    /\ mgrEventType = 0 /\ contourROI = EmptyDoc /\ colorBlink = 0
    /\ uiPc = "idle" /\ uiMode = "ROI Configuration" /\ uiEvent = "EventStat"
    /\ uiROI = EmptyDoc /\ uiView = Logo
    /\ calls = 0 /\ blinkHist = <<>> /\ reloads = 0 /\ sinceWrite = "none"
    /\ fileVer = [n \in EventNames |-> 0]
    /\ contourVer = 0 /\ contourFile = "EventStat"
    /\ snapVer = fileVer /\ snapDoc = lastDoc
    /\ ranHandler = "none"
    /\ detects = 0
    /\ args = NoArgs /\ ret = NotCalled

\* The producer is started, with the control surface running beside it, on a
\* Redis that holds no key yet or the control keys of an earlier session.
Init ==
    /\ prd_app_mode \in {Absent, 1, 2}
    /\ prd_event_type \in {Absent, 0, 1, 2}
    /\ prd_frame = [k \in FrameKeys |-> Absent]
    /\ camera0 = <<>> /\ xid = 0
    /\ files = [n \in EventNames |-> EmptyDoc]
    /\ lastDoc = files
    /\ pc = "main_check_app_mode"
    /\ framesLeft = MaxFrames
    /\ uiLeft = MaxUIRuns
    /\ InitRest

Next == Producer \/ ControlSurface

Spec == Init /\ [][Next]_vars

(***************************************************************************)
(* The frame log alone: the producer runs with no control surface beside   *)
(* it, on a Redis that holds no key yet or on the Redis an earlier session *)
(* of the producer has left, camera:0 nearly full.                         *)
(***************************************************************************)
\* the records of camera:0 after an earlier session that seeded the stream
\* and then streamed n - 1 frames under event type 0
EarlierRecords(n) ==
    [i \in 1..n |->
        [id |-> i,
         msg |-> IF i = 1 THEN SeedMsg
                 ELSE RunHandler("findEventStat", EmptyDoc, i - 1,
                                 (i - 2) % 10)]]

InitLog ==
    /\ \/ /\ prd_app_mode = Absent /\ prd_event_type = Absent
          /\ prd_frame = [k \in FrameKeys |-> Absent]
          /\ camera0 = <<>> /\ xid = 0
       \/ /\ prd_app_mode = 2 /\ prd_event_type \in {0, 1, 2}
          /\ prd_frame = [k \in FrameKeys |-> Logo]
          /\ camera0 = EarlierRecords(MAXLEN - 2) /\ xid = MAXLEN - 2
    /\ files = [n \in EventNames |-> EmptyDoc]
    /\ lastDoc = files
    /\ pc = "main_check_app_mode"
    /\ framesLeft = LogFrames
    /\ uiLeft = 0
    /\ InitRest

SpecLog == InitLog /\ [][Producer]_vars

(***************************************************************************)
(* The EventManager alone: a caller constructs it and calls its methods    *)
(* in any order.                                                           *)
(***************************************************************************)
\* the event types a caller passes: the three known ones and an unknown one
CallerEventTypes == 0..3
\* the frames (with their detections) a caller passes
CallerFrames == 1..2

\* findEventStat(np_boxes, img, vehicleThres=5)
CallFindEventStat(frame) ==
    /\ calls < MaxCalls
    /\ CallHandler("findEventStat", frame)
    /\ UNCHANGED <<redisVars, files, pc, app_mode, event_type, app_mode_prev,
                   event_type_prev, eventName, image, framesLeft, index,
                   uiVars, reloads, sinceWrite, fileVer, lastDoc,
                   contourVer, contourFile, snapVer, snapDoc>>

\* alertStrangerIntrusion(np_boxes, img)
CallAlertStrangerIntrusion(frame) ==
    /\ calls < MaxCalls
    /\ CallHandler("alertStrangerIntrusion", frame)
    /\ UNCHANGED <<redisVars, files, pc, app_mode, event_type, app_mode_prev,
                   event_type_prev, eventName, image, framesLeft, index,
                   uiVars, reloads, sinceWrite, fileVer, lastDoc,
                   contourVer, contourFile, snapVer, snapDoc>>

\* monitorVehicle(np_boxes, img)
CallMonitorVehicle(frame) ==
    /\ calls < MaxCalls
    /\ CallHandler("monitorVehicle", frame)
    /\ UNCHANGED <<redisVars, files, pc, app_mode, event_type, app_mode_prev,
                   event_type_prev, eventName, image, framesLeft, index,
                   uiVars, reloads, sinceWrite, fileVer, lastDoc,
                   contourVer, contourFile, snapVer, snapDoc>>

\* updateROISettings(eventType)
CallUpdateROISettings(eventType) ==
    /\ IF CanLoad(files, eventType)
         THEN UpdateROISettings(eventType) /\ reloads' = 1
         ELSE UpdateROISettingsRaises(eventType) /\ reloads' = 0
    /\ UNCHANGED <<redisVars, files, pc, localVars, uiVars, calls, blinkHist,
                   sinceWrite, fileVer, lastDoc, snapVer, snapDoc,
                   ranHandler,
                   handlerVars, detects>>

\* getEventName(eventType)
CallGetEventName(eventType) ==
    /\ CanName(eventType)
    /\ eventName' = GetEventName(eventType)
    /\ UNCHANGED <<redisVars, files, pc, app_mode, event_type, app_mode_prev,
                   event_type_prev, image, framesLeft, index, appMetadata,
                   mgrVars, uiVars, histVars,
                   handlerVars, detects>>

ManagerCalls ==
    \/ \E frame \in CallerFrames : CallFindEventStat(frame)
    \/ \E frame \in CallerFrames : CallAlertStrangerIntrusion(frame)
    \/ \E frame \in CallerFrames : CallMonitorVehicle(frame)
    \/ \E eventType \in CallerEventTypes : CallUpdateROISettings(eventType)
    \/ \E eventType \in CallerEventTypes : CallGetEventName(eventType)

\* EventManager(config, eventType) has returned
InitMgr ==
    /\ files \in [EventNames -> Docs]
    /\ lastDoc = files
    /\ mgrEventType \in {0, 1, 2}
    /\ contourROI = LoadROI(files, mgrEventType)
    /\ contourFile = eventName_map[mgrEventType]
    /\ colorBlink = 0
    /\ prd_app_mode = Absent /\ prd_event_type = Absent
    /\ prd_frame = [k \in FrameKeys |-> Absent]
    /\ camera0 = <<>> /\ xid = 0
    /\ pc = "caller"
    /\ framesLeft = 0 /\ uiLeft = 0
    /\ app_mode = 0 /\ event_type = 0
    /\ app_mode_prev = 0 /\ event_type_prev = 0
    /\ eventName = "EventStat"
    /\ image = Logo /\ index = 0
    /\ appMetadata = SeedMsg
    /\ uiPc = "idle" /\ uiMode = "ROI Configuration" /\ uiEvent = "EventStat"
    /\ uiROI = EmptyDoc /\ uiView = Logo
    /\ calls = 0 /\ blinkHist = <<>> /\ reloads = 0 /\ sinceWrite = "none"
    /\ fileVer = [n \in EventNames |-> 0]
    /\ contourVer = 0
    /\ snapVer = fileVer /\ snapDoc = lastDoc
    /\ ranHandler = "none"
    /\ detects = 0
    /\ args = NoArgs /\ ret = NotCalled

SpecMgr == InitMgr /\ [][ManagerCalls]_vars

(***************************************************************************)
(* Faults of the settings directory: the producer and the control surface  *)
(* (streaming, its event type switched) run on a directory where settings  *)
(* files are missing at the start or are removed while they run.           *)
(***************************************************************************)
\* frames of the capture source in the fault specification
MaxFaultFrames == 1
\* script runs of the control surface in the fault specification
MaxFaultRuns == 1

\* the settings file of an event is removed from the directory, after
\* which os.path.exists is false and open() raises
SettingsFileRemoved(name) ==
    /\ files[name] \in Docs
    /\ ~(uiEvent = name /\ uiPc \in {"config_get", "config_open",
                                      "config_dump"})
    /\ files' = [files EXCEPT ![name] = Missing]
    /\ UNCHANGED <<redisVars, pc, localVars, mgrVars, uiVars, histVars,
                   handlerVars, detects>>

InitFault ==
    /\ prd_app_mode \in {Absent, 2}
    /\ prd_event_type \in {Absent, 0, 1, 2}
    /\ prd_frame = [k \in FrameKeys |-> Absent]
    /\ camera0 = <<>> /\ xid = 0
    /\ files \in [EventNames -> {Missing, EmptyDoc}]
    /\ lastDoc = files
    /\ pc = "main_check_app_mode"
    /\ framesLeft = MaxFaultFrames
    /\ uiLeft = MaxFaultRuns
    /\ InitRest

\* the operator keeps the control surface on 'Event Alert Stream' and
\* selects events
NextFault ==
    \/ Producer
    \/ \E event \in EventNames : UIRun("Event Alert Stream", event)
    \/ UISetAppMode
    \/ UISetEventType
    \/ UIStreamAlert
    \/ \E name \in EventNames : SettingsFileRemoved(name)

SpecFault == InitFault /\ [][NextFault]_vars

(***************************************************************************)
(* Control keys holding any integer: the producer runs on a Redis whose    *)
(* keys app_mode and event_type were left by, or are set by, a client      *)
(* other than the control surface, so that int(prd.get(...)) returns the   *)
(* modes 0 (Unset) and 3 and the event type 3 as well.                     *)
(***************************************************************************)
\* frames of the capture source in the control-key specification
MaxKeyFrames == 2

\* the integers a control key holds
KeyValues == 0..3

\* prd.set(key, v) by another client
KeySet(key, v) ==
    /\ IF key = "app_mode"
         THEN /\ prd_app_mode # v
              /\ prd_app_mode' = v
              /\ UNCHANGED <<prd_event_type, sinceWrite>>
         ELSE /\ prd_event_type # v
              /\ prd_event_type' = v
              /\ sinceWrite' = "none"
              /\ UNCHANGED prd_app_mode
    /\ UNCHANGED <<prd_frame, camera0, xid, files, pc, localVars, mgrVars,
                   uiVars, calls, blinkHist, reloads, fileVer, lastDoc,
                   contourVer, contourFile, snapVer, snapDoc, ranHandler,
                   handlerVars, detects>>

InitKeys ==
    /\ prd_app_mode \in {Absent} \cup KeyValues
    /\ prd_event_type \in {Absent} \cup KeyValues
    /\ prd_frame = [k \in FrameKeys |-> Absent]
    /\ camera0 = <<>> /\ xid = 0
    /\ files = [n \in EventNames |-> EmptyDoc]
    /\ lastDoc = files
    /\ pc = "main_check_app_mode"
    /\ framesLeft = MaxKeyFrames
    /\ uiLeft = 0
    /\ InitRest

NextKeys ==
    \/ Producer
    \/ \E key \in {"app_mode", "event_type"}, v \in KeyValues : KeySet(key, v)

SpecKeys == InitKeys /\ [][NextKeys]_vars

(***************************************************************************)
(* One handler call in full: a caller holds an EventManager whose          *)
(* contourROI is some settings document and whose colorBlink earlier calls *)
(* have left anywhere in 0..9, and calls one handler on some detections.   *)
(***************************************************************************)
\* bounding boxes have their corners in 0..MaxCoord
MaxCoord == 2
\* detections of one call where several are passed
MaxBoxes == 2

\* the scores passed: below, at and above the threshold
Scores == {40, DefaultThreshold, 90}
\* the classes passed: none (-1), the four of EventManager.objects, another
Classes == -1..4

\* a class the handler's filter lets through
KeptClass(h) == IF h = "alertStrangerIntrusion" THEN 0 ELSE 2

\* every bounding box of width and height 0 or 1: the centres are all the
\* whole and half pixels
UnitBoxes(cls, score) ==
    {Box(cls, score, x, y, x + w, y + v) :
        x \in 0..MaxCoord, y \in 0..MaxCoord, w \in {0, 1}, v \in {0, 1}}

\* two bounding boxes: centre (2, 2) and centre (3.5, 3.5)
SampleBoxes(cls, score) ==
    {Box(cls, score, 2, 2, 2, 2), Box(cls, score, 3, 3, 4, 4)}

\* the sequences of at most n elements of S
SeqsUpTo(S, n) == UNION {[1..k -> S] : k \in 0..n}

\* a call on one detection that passes the filters, any region document
InitGeometry ==
    /\ contourROI \in CatalogueDocs \cup TriangleDocs
    /\ colorBlink = 0
    /\ \E h \in Handlers : \E box \in UnitBoxes(KeptClass(h), 90) :
          args = Args(h, <<box>>, TRUE, TRUE, DefaultVehicleThres)

\* a call on several detections of a kept class, any colorBlink
InitCounts ==
    /\ contourROI \in CatalogueDocs
    /\ colorBlink \in 0..9
    /\ \E h \in Handlers :
       \E np_boxes \in SeqsUpTo(UNION {SampleBoxes(KeptClass(h), sc) :
                                         sc \in {DefaultThreshold, 90}},
                                MaxBoxes) :
       \E vehicleThres \in IF h = "findEventStat"
                             THEN {1, 2, DefaultVehicleThres}
                             ELSE {DefaultVehicleThres} :
          args = Args(h, np_boxes, TRUE, TRUE, vehicleThres)

\* a call on one detection of any class and score, with and without img
\* and drawContour
InitFilters ==
    /\ contourROI \in CatalogueDocs
    /\ colorBlink \in {0, 9}
    /\ \E h \in Handlers : \E cls \in Classes : \E sc \in Scores :
       \E box \in SampleBoxes(cls, sc) : \E img, drawContour \in BOOLEAN :
          args = Args(h, <<box>>, img, drawContour, DefaultVehicleThres)

\* monitorVehicle called on several detections of the three vehicle classes
InitMixed ==
    /\ contourROI \in CatalogueDocs
    /\ colorBlink = 0
    /\ \E np_boxes \in SeqsUpTo(UNION {SampleBoxes(cls, 90) :
                                         cls \in {1, 2, 3}}, MaxBoxes) :
          args = Args("monitorVehicle", np_boxes, TRUE, TRUE,
                      DefaultVehicleThres)

\* the call predict_publish makes after detector.predict(image,
\* FLAGS.threshold) has returned detections of any score
InitPipeline ==
    /\ contourROI \in CatalogueDocs
    /\ colorBlink = 0
    /\ event_type \in DOMAIN eventName_map
    /\ detects = 1 /\ image = 1 /\ index = 1
    /\ \E flagsThreshold \in FlagsThresholds :
       \E results \in SeqsUpTo(
              UNION {SampleBoxes(KeptClass(Handler(event_type)), sc) :
                       sc \in Scores}, MaxBoxes) :
          args = PipelineArgs(event_type, results, flagsThreshold)

InitCls ==
    /\ \/ /\ InitGeometry \/ InitCounts \/ InitFilters \/ InitMixed
          /\ event_type = 0
          /\ detects = 0 /\ image = Logo /\ index = 0
       \/ InitPipeline
    /\ ret = NotCalled
    /\ mgrEventType = 0 /\ contourFile = "EventStat"
    /\ files = [n \in EventNames |-> EmptyDoc]
    /\ lastDoc = files
    /\ prd_app_mode = Absent /\ prd_event_type = Absent
    /\ prd_frame = [k \in FrameKeys |-> Absent]
    /\ camera0 = <<>> /\ xid = 0
    /\ pc = "call"
    /\ framesLeft = 0 /\ uiLeft = 0
    /\ app_mode = 0
    /\ app_mode_prev = 0 /\ event_type_prev = 0
    /\ eventName = "EventStat"
    /\ appMetadata = SeedMsg
    /\ uiPc = "idle" /\ uiMode = "ROI Configuration" /\ uiEvent = "EventStat"
    /\ uiROI = EmptyDoc /\ uiView = Logo
    /\ calls = 0 /\ blinkHist = <<>> /\ reloads = 0 /\ sinceWrite = "none"
    /\ fileVer = [n \in EventNames |-> 0]
    /\ contourVer = 0
    /\ snapVer = fileVer /\ snapDoc = lastDoc
    /\ ranHandler = "none"

\* the handler named in args runs on contourROI and returns or raises
CallInFull ==
    /\ pc = "call"
    /\ ret' = HandlerBody(args.handler, DocRegions(contourROI), args,
                          colorBlink)
    /\ colorBlink' = IF BlinkStepped(ret') THEN BlinkNext(colorBlink)
                                           ELSE colorBlink
    /\ ranHandler' = args.handler
    /\ calls' = calls + 1
    /\ blinkHist' = LastN(Append(blinkHist, colorBlink), 10)
    /\ pc' = "returned"
    /\ UNCHANGED <<redisVars, files, localVars, mgrEventType, contourROI,
                   uiVars, reloads, sinceWrite, fileVer, lastDoc, contourVer,
                   contourFile, snapVer, snapDoc, args, detects>>

SpecCls == InitCls /\ [][CallInFull]_vars

(***************************************************************************)
(* Properties.                                                             *)
(***************************************************************************)
\* the producer is about to call, or has just called, a handler for a frame
AtClassification == pc \in {"classify", "append"}

\* C1 (Event-switch isolation): at every classification call of
\* predict_publish the region set the EventManager holds was loaded from the
\* settings file of the event type whose handler is dispatched, which is the
\* manager's eventType and event_type_prev; the handler that ran is that
\* event type's, on that region set.
C1_EventSwitchIsolation ==
    /\ AtClassification =>
         /\ CanName(event_type)
         /\ mgrEventType = event_type
         /\ event_type_prev = event_type
         /\ contourFile = eventName_map[event_type]
    /\ pc = "append" =>
         /\ ranHandler = Handler(event_type)
         /\ appMetadata.handler = Handler(mgrEventType)
         /\ appMetadata.roi = contourROI

\* a classification under event type 2 follows one under event type 0
C1_Witness ==
    /\ pc = "append"
    /\ event_type = 2
    /\ ranHandler = "monitorVehicle"
    /\ camera0 # <<>>
    /\ camera0[Len(camera0)].msg.handler = "findEventStat"

\* C2 (a written event type is never dropped): of the records added to
\* camera:0 after the last write of event_type, only the first can have been
\* classified under an event type other than the written one; every later
\* one is classified under the written one.
C2_AtMostOneStaleRecord == sinceWrite # "late"

\* one record was classified under the old event type after the write, and
\* the next one under the written event type
C2_Witness ==
    /\ sinceWrite = "fresh"
    /\ pc = "capture"
    /\ calls >= 2
    /\ event_type = prd_event_type
    /\ Len(camera0) >= 2
    /\ camera0[Len(camera0) - 1].msg.handler # Handler(prd_event_type)
    /\ camera0[Len(camera0)].msg.handler = Handler(prd_event_type)

C5_BlinkOwnedByHandlers ==
    /\ [](colorBlink \in 0..9 /\ (calls = 0 => colorBlink = 0))
    /\ [][colorBlink' # colorBlink => calls' = calls + 1]_vars
    /\ [][(mgrEventType' # mgrEventType \/ contourROI' # contourROI
           \/ eventName' # eventName) => colorBlink' = colorBlink]_vars

\* updateROISettings has switched the event type and the region set at
\* colorBlink = 9
C5_Witness ==
    /\ colorBlink = 9
    /\ reloads = 1
    /\ mgrEventType # 0
    /\ contourROI # appMetadata.roi
    /\ appMetadata.blink = 8
    /\ eventName = eventName_map[mgrEventType]

\* C6 (Configuring performs no analysis): the detector, the handlers and the
\* frame log are reached only with a polled mode other than 1; a polling
\* iteration that polled mode 1 publishes the raw frame, adds nothing to
\* camera:0 and polls again.
C6_ConfiguringNoAnalysis ==
    /\ [](pc \in {"detect", "classify", "append"} => app_mode # 1)
    /\ [][(pc = "publish" /\ pc' # pc) =>
            /\ prd_frame'[eventName] = image
            /\ camera0' = camera0 /\ calls' = calls
            /\ (app_mode = 1 <=> pc' = "poll_app_mode")
            /\ (app_mode # 1 <=> pc' = "detect")]_vars
    /\ [][(pc \in {"poll_app_mode", "poll_event_type", "reload"}
           /\ pc' # pc) => camera0' = camera0 /\ calls' = calls]_vars

\* the second polling iteration of a stay in Configuring
C6_Witness ==
    /\ pc = "publish"
    /\ app_mode = 1 /\ app_mode_prev = 1
    /\ index = 1
    /\ prd_frame[eventName] = image
    /\ calls = 0

\* whether this polling iteration polled another event type or another mode
\* than the one before
PolledChange == event_type # event_type_prev \/ app_mode # app_mode_prev

\* C7 as claimed: a polling iteration reloads the region set if and only if
\* the polled event type differs from the one observed before.
C7_ReloadIffEventTypeChanged ==
    pc = "publish" => (reloads = 1 <=> event_type # event_type_prev)

\* C7 (amended): a polling iteration reloads the region set exactly once if
\* the polled event type or the polled mode differs from the one observed
\* before, and not at all otherwise.
C7_ReloadIffEventTypeOrModeChanged ==
    pc = "publish" => reloads = (IF PolledChange THEN 1 ELSE 0)

\* a reload in an iteration that polled a new mode and the same event type
C7_Witness ==
    /\ pc = "publish"
    /\ reloads = 1
    /\ event_type = event_type_prev
    /\ app_mode # app_mode_prev
    /\ index = 2

\* C8 (reload and display key before the publish): when the raw frame is
\* published, the region set and the display key are already those of the
\* event type just polled, and the frame is written under that key only.
C8_ReloadBeforePublish ==
    /\ [](pc = "publish" =>
            /\ eventName = eventName_map[event_type]
            /\ mgrEventType = event_type
            /\ contourFile = eventName_map[event_type])
    /\ [][(pc = "publish" /\ pc' # pc) =>
            /\ prd_frame'[eventName_map[event_type]] = image
            /\ \A k \in FrameKeys \ {eventName_map[event_type]} :
                   prd_frame'[k] = prd_frame[k]
            /\ camera0' = camera0 /\ calls' = calls]_vars

\* the publish of an iteration that polled a new event type, the previous
\* frame still under the old event's key
C8_Witness ==
    /\ pc = "publish"
    /\ event_type # event_type_prev
    /\ CanName(event_type_prev)
    /\ reloads = 1
    /\ index = 2
    /\ prd_frame[eventName_map[event_type_prev]] = 1

\* C9: the region set a classification uses is no older than the last
\* edit of the event type's settings file that was completed before the
\* polling iteration of that frame began.
C9_ReflectsLatestEdit ==
    (pc = "classify" /\ CanName(event_type)) =>
        \/ contourVer >= snapVer[eventName_map[event_type]]
        \/ contourROI = snapDoc[eventName_map[event_type]]

\* a producer step: every step of the producer moves its pc
ProducerStep == pc' # pc

\* C10 as claimed: app_mode and event_type are written by the control
\* surface only.
C10_OnlyControlSurfaceWrites ==
    [][(prd_app_mode' # prd_app_mode \/ prd_event_type' # prd_event_type)
         => ~ProducerStep]_vars

\* C10 (amended): the producer writes app_mode and event_type only in its
\* start-up code, which sets app_mode to 1 and event_type to 0 after it
\* found the key absent; predict_publish and the EventManager only read.
C10_ProducerWritesOnlyToSeed ==
    /\ [][(ProducerStep /\ prd_app_mode' # prd_app_mode) =>
            /\ pc = "main_set_app_mode"
            /\ prd_app_mode' = 1]_vars
    /\ [][(ProducerStep /\ prd_event_type' # prd_event_type) =>
            /\ pc = "main_set_event_type"
            /\ prd_event_type' = 0]_vars
    /\ [][(ProducerStep /\ pc' = "main_set_app_mode") =>
            prd_app_mode = Absent]_vars
    /\ [][(ProducerStep /\ pc' = "main_set_event_type") =>
            prd_event_type = Absent]_vars

\* predict_publish runs on the control keys the start-up code has seeded,
\* the control surface not having run
C10_Witness ==
    /\ pc = "publish"
    /\ uiLeft = MaxUIRuns /\ uiPc = "idle"
    /\ prd_app_mode = 1 /\ prd_event_type = 0
    /\ app_mode = 1 /\ event_type = 0


(***************************************************************************)
(* C11.  The streaming step.                                               *)
(***************************************************************************)
\* the records the loop has added to camera:0 (all but the seeded one)
Streamed == SelectSeq(camera0, LAMBDA r : r.msg.handler # "none")

\* the pc values inside an outer iteration, after its capture
InIteration == {"poll_app_mode", "poll_event_type", "reload", "publish",
                "detect", "classify", "append"}

\* the frames whose outer iteration has ended with its record added: all
\* the frames read, but the one in hand (or the one in hand when a reload
\* raised)
FramesStreamed ==
    IF index > 0 /\ pc \in InIteration \cup {"crashed"}
      THEN index - 1 ELSE index

\* C11: every frame that is captured and leaves the polling loop gets one
\* detector call, one classification and one record, which holds what that
\* classification returned for that frame; the records are in capture
\* order, none skipped and none added twice.  So: as many detector calls as
\* classifications and as records, but for the step in hand; record k of
\* the loop is the return of a classification of frame k; and the record
\* that is about to be added is the return of the classification of the
\* frame in hand, by the handler of the polled event type, on the regions
\* and the colorBlink the manager held.
C11_OneDetectOneClassifyOneRecord ==
    /\ detects = calls + (IF pc = "classify" THEN 1 ELSE 0)
    /\ calls = Len(Streamed) + (IF pc = "append" THEN 1 ELSE 0)
    /\ Len(Streamed) = FramesStreamed
    /\ \A k \in 1..Len(Streamed) :
          /\ Streamed[k].msg.frame = k
          /\ Streamed[k].msg.handler \in
                {"findEventStat", "alertStrangerIntrusion", "monitorVehicle"}
    /\ pc \in {"detect", "classify", "append"} => image = index
    /\ pc = "append" =>
          appMetadata = RunHandler(Handler(event_type), contourROI, image,
                                   blinkHist[Len(blinkHist)])

\* two frames have been streamed, each with its record, and the capture
\* source is asked for the next
C11_Witness ==
    /\ pc = "capture"
    /\ index = 2 /\ detects = 2 /\ calls = 2
    /\ Len(Streamed) = 2
    /\ Streamed[1].msg.frame = 1 /\ Streamed[2].msg.frame = 2

(***************************************************************************)
(* C12.  The end of the outer loop.                                        *)
(***************************************************************************)
\* the producer has stopped
Stopped == pc \in {"done", "crashed"}

\* what the producer writes: its variables, the manager's, the raw-frame
\* keys and the stream
ProducerWrites == <<pc, localVars, mgrVars, prd_frame, camera0, xid, calls,
                    detects>>

\* C12 as claimed: the outer loop, once a frame was read, ends through the
\* capture source reporting no frame and in no other way.
C12_EndsOnlyOnNoFrame ==
    (Stopped /\ index > 0) => (pc = "done" /\ framesLeft = 0)

\* C12 (amended): the outer loop is left by its break only when the capture
\* source reports no frame; the one other way the loop ends is an exception
\* that a step of the iteration raises, which here is the settings reload
\* whose file cannot be loaded; until one of the two the producer always
\* has a next step; and after either, it polls, publishes and appends
\* nothing more.
C12_EndsOnNoFrameOrException ==
    /\ [][(pc' = "done" /\ pc # "done") =>
            (pc = "capture" /\ framesLeft = 0)]_vars
    /\ [][(pc' = "crashed" /\ pc # "crashed" /\ index > 0) =>
            /\ pc = "reload"
            /\ NeedsReload(event_type, event_type_prev, app_mode,
                           app_mode_prev)
            /\ ~CanLoad(files, event_type)]_vars
    /\ [][(pc = "capture" /\ framesLeft = 0 /\ pc' # pc) => pc' = "done"]_vars
    /\ [][Stopped => UNCHANGED ProducerWrites]_vars
    /\ [](~Stopped => ENABLED Producer)

\* the capture source has reported no frame after two frames, the second
\* of which was streamed, and the control surface runs on
C12_Witness ==
    /\ pc = "done" /\ framesLeft = 0
    /\ index = 2 /\ Len(Streamed) = 2
    /\ uiPc = "streaming"


(***************************************************************************)
(* C13 .. C19.  One handler call in full.                                  *)
(***************************************************************************)
\* the call has returned (final_np_1, results, varApp)
Returned == pc = "returned" /\ ret.raised = "no"

\* the regions the call ran on, and the detections that survived its filter
Regions == DocRegions(contourROI)
Kept == FilterBoxes(args.handler, args.np_boxes, args.threshold)

\* the contour with every coordinate doubled
Doubled(cnt) == [i \in 1..Len(cnt) |-> <<2 * cnt[i][1], 2 * cnt[i][2]>>]

\* the bounding-box centre (xmin + (xmax - xmin)/2, ymin + (ymax - ymin)/2)
\* itself is strictly inside the polygon or on its boundary: the test of
\* the doubled centre against the doubled polygon
CentreInOrOn(cnt, box) ==
    PointPolygonTest(Doubled(cnt), <<PointX2(box), PointY2(box)>>) \in {0, 1}

\* the entries of the tagged list for detection box and region i
Entries(box, i) ==
    Cardinality({k \in 1..Len(ret.boxes) :
                    ret.boxes[k].box = box /\ ret.boxes[k].roi = i})

\* how often box is among the surviving detections
Copies(box) == Cardinality({k \in 1..Len(Kept) : Kept[k] = box})

\* C13 as claimed: for every active region, a surviving detection whose
\* centre is strictly inside the polygon or on its boundary is counted for
\* the region exactly once, and one whose centre is strictly outside is
\* not counted; so the region's count is the number of surviving
\* detections whose centre is inside or on the boundary.
C13_CentreDecidesCount ==
    Returned =>
        \A i \in Slots : Regions[i] # <<>> =>
            /\ ret.varApp[i] =
                  Cardinality({k \in 1..Len(Kept) :
                                  CentreInOrOn(Regions[i], Kept[k])})
            /\ \A k \in 1..Len(Kept) :
                  Entries(Kept[k], i) =
                      IF CentreInOrOn(Regions[i], Kept[k])
                        THEN Copies(Kept[k]) ELSE 0


\* colorBlink at the time of the call
BlinkAtCall == blinkHist[Len(blinkHist)]

\* the detections passed whose score is strictly greater than the threshold
AboveThreshold ==
    SelectSeq(args.np_boxes, LAMBDA box : box.score > args.threshold)

\* C14: in all three handlers a detection whose score is not strictly
\* greater than the threshold does not reach the region matching: no entry
\* of the tagged list has such a score, and the call returns what it
\* returns when those detections are not passed at all, whatever their
\* position and class.
C14_ThresholdFilter ==
    Returned =>
        /\ \A k \in 1..Len(ret.boxes) :
              ret.boxes[k].box.score > args.threshold
        /\ ret = HandlerBody(args.handler, Regions,
                             [args EXCEPT !.np_boxes = AboveThreshold],
                             BlinkAtCall)

\* two detections of a kept class with their centre in the one region, the
\* first with a score equal to the threshold: the second alone is counted
C14_Witness ==
    /\ Returned
    /\ contourROI = 1
    /\ Len(args.np_boxes) = 2
    /\ args.np_boxes[1] = Box(KeptClass(args.handler), DefaultThreshold,
                              2, 2, 2, 2)
    /\ args.np_boxes[2] = Box(KeptClass(args.handler), 90, 2, 2, 2, 2)
    /\ ret.varApp[1] = 1
    /\ Len(ret.boxes) = 1 /\ ret.boxes[1].box.score = 90

\* the classes the filter of an event type's handler lets through
ClaimedClasses(h) ==
    CASE h = "findEventStat" -> {c \in Classes : c > -1}
      [] h = "alertStrangerIntrusion" -> {0}
      [] h = "monitorVehicle" -> {1, 2, 3}

\* detection box passes the class filter and the threshold filter
PassesBoth(box) ==
    box.cls \in ClaimedClasses(args.handler) /\ box.score > args.threshold

\* C15: only a detection whose class passes the filter of the event type
\* (EventStat: classId > -1; AlertStranger: 0; MonitorVehicle: 1, 2, 3) is
\* counted or tagged, and every detection that passes the class filter and
\* the threshold filter is matched with every active region: the count of a
\* region is the number of such detections whose tested point is inside it
\* or on its boundary, and each of them has its entry in the tagged list.
C15_ClassFilter ==
    Returned =>
        /\ \A k \in 1..Len(ret.boxes) :
              ret.boxes[k].box.cls \in ClaimedClasses(args.handler)
        /\ \A i \in Slots : Regions[i] # <<>> =>
              /\ ret.varApp[i] =
                    Cardinality({k \in 1..Len(args.np_boxes) :
                        /\ PassesBoth(args.np_boxes[k])
                        /\ IsIntrusion(Regions[i], args.np_boxes[k])})
              /\ \A k \in 1..Len(args.np_boxes) :
                    (/\ PassesBoth(args.np_boxes[k])
                     /\ IsIntrusion(Regions[i], args.np_boxes[k]))
                    => Entries(args.np_boxes[k], i) >= 1

\* a car with a high score in the middle of five regions, passed to
\* alertStrangerIntrusion: nothing is counted and nothing tagged
C15_Witness ==
    /\ Returned
    /\ args.handler = "alertStrangerIntrusion"
    /\ contourROI = 5
    /\ args.np_boxes = <<Box(2, 90, 2, 2, 2, 2)>>
    /\ \A i \in Slots : ret.varApp[i] = 0
    /\ ret.boxes = <<>>

ClaimedCondition(h, count) ==
    CASE h = "findEventStat" -> count >= args.vehicleThres
      [] h = "alertStrangerIntrusion" -> count > 0
      [] h = "monitorVehicle" -> count = 0

C18_InactiveRegionNeutral ==
    Returned =>
        \A i \in Slots : Regions[i] = <<>> =>
            /\ ret.varApp[i] = 0
            /\ \A k \in 1..Len(ret.boxes) : ret.boxes[k].roi # i
            /\ \A k \in 1..Len(ret.labels) : ret.labels[k].roi # i
            /\ ret.drawn[i].fill = "none"
            /\ ~ret.drawn[i].centroid

\* monitorVehicle on a document whose third region alone has vertices, no
\* vehicle in it: the one text line is the alert of region 3
C18_Witness ==
    /\ Returned
    /\ args.handler = "monitorVehicle"
    /\ contourROI = 3
    /\ BlinkAtCall < 5
    /\ \A i \in Slots : ret.varApp[i] = 0
    /\ Len(ret.labels) = 1
    /\ ret.labels[1].roi = 3
    /\ ret.labels[1].kind = "No or missing vehicle"
    /\ ret.labels[1].colour = "alert"
    /\ ret.drawn[3].fill = "alert"

\* C19 as claimed: the index is written at the centroid of a rendered
\* region if and only if the polygon's area moment m00 is not zero, and no
\* call ends with the centroid's division by zero.
C19_CentroidLabelIffArea ==
    pc = "returned" =>
        /\ ret.raised # "centroid"
        /\ Returned =>
              \A i \in Slots : ret.drawn[i].fill # "none" =>
                  (ret.drawn[i].centroid <=> Moments(Regions[i]).m00 # 0)


(***************************************************************************)
(* C20.  A missing settings file.                                          *)
(***************************************************************************)
\* the settings file of event type et does not exist
FileIsMissing(et) ==
    et \in DOMAIN eventName_map /\ files[eventName_map[et]] = Missing

\* C20: when the settings file of the selected event type does not exist,
\* the construction of the EventManager and updateROISettings fail: the
\* producer stops there, the region set it held untouched, and does nothing
\* more.  The region set changes only by being read from an existing file,
\* and every classification runs on the region set read from the file of
\* the event type it is dispatched on: never on a substituted empty or
\* default set, never on the set of the previous event type.
C20_MissingConfigIsFatal ==
    /\ [][(pc = "construct" /\ pc' # pc /\ FileIsMissing(event_type)) =>
            (pc' = "crashed" /\ UNCHANGED <<contourROI, contourFile>>)]_vars
    /\ [][(pc = "reload" /\ pc' # pc /\ PolledChange
             /\ FileIsMissing(event_type)) =>
            (pc' = "crashed" /\ UNCHANGED <<contourROI, contourFile>>)]_vars
    /\ [][pc = "crashed" => UNCHANGED ProducerWrites]_vars
    /\ [][(contourROI' # contourROI \/ contourFile' # contourFile) =>
            /\ files[contourFile'] \in Docs
            /\ contourROI' = files[contourFile']]_vars
    /\ [](AtClassification =>
            /\ contourFile = eventName_map[event_type]
            /\ mgrEventType = event_type
            /\ contourROI \in Docs)

\* the producer was constructed on AlertStranger.json, read a frame, and
\* stopped in the reload for MonitorVehicle, whose file does not exist; it
\* still holds the region set of AlertStranger and has classified nothing
C20_Witness ==
    /\ pc = "crashed" /\ index = 1
    /\ event_type = 2 /\ event_type_prev = 1
    /\ FileIsMissing(event_type)
    /\ mgrEventType = 2 /\ contourFile = "AlertStranger"
    /\ calls = 0 /\ Streamed = <<>>

(***************************************************************************)
(* Claims about unknown control values, the raw-frame keys and the         *)
(* control surface's loop.                                                 *)
(***************************************************************************)
\* the event type the producer read has no entry in eventName
UnknownEventType == event_type \notin DOMAIN eventName_map

\* C21: an unknown event type (an integer other than 0, 1, 2) that the
\* producer has read from the control plane is not rejected: the producer is
\* not stopped on it, and the classification it goes on to runs
\* findEventStat.
C21_UnknownEventTypeDispatched ==
    UnknownEventType =>
        /\ pc # "crashed"
        /\ pc = "append" => ranHandler = "findEventStat"

\* what the producer does instead: no classification is ever reached with
\* an unknown event type
UnknownEventTypeNeverClassified ==
    pc \in {"publish", "detect", "classify", "append"} => ~UnknownEventType

\* the raw-frame keys after the orchestrator's write for the polled event
\* type with the frame of the current outer iteration
RawFrameSet == [prd_frame EXCEPT ![eventName_map[event_type]] = index]

\* C22 (as stated): every write to a per-event raw-frame key stores the
\* unannotated frame captured in the current outer iteration under the
\* display name of the most recently polled event type.
C22_EveryRawFrameWrite ==
    [][prd_frame' # prd_frame =>
           /\ pc = "publish"
           /\ image = index
           /\ prd_frame' = RawFrameSet]_vars

\* C22 (amended): the raw-frame keys are written by the start-up code,
\* which sets the logo under the keys that do not exist, and by the polling
\* loop; every write of the polling loop stores the frame captured in the
\* current outer iteration under the display name of the event type just
\* polled and under no other key; every polling iteration that does not
\* raise makes this write, and while the mode is Configuring the loop polls
\* again after it.
C22_RawFrameUnderPolledEvent ==
    [][/\ prd_frame' # prd_frame => pc \in {"main_seed_frames", "publish"}
       /\ pc = "main_seed_frames" /\ ProducerStep =>
              \A k \in FrameKeys :
                  prd_frame'[k] = IF prd_frame[k] = Absent THEN Logo
                                                           ELSE prd_frame[k]
       /\ pc = "publish" /\ ProducerStep =>
              /\ image = index
              /\ prd_frame' = RawFrameSet
              /\ app_mode = 1 => pc' = "poll_app_mode"
       /\ pc = "reload" /\ ProducerStep => pc' \in {"publish", "crashed"}
      ]_vars

\* While Configuring with AlertStranger polled, the second frame of the
\* source has been set under AlertStranger, and EventStat still holds the
\* logo.
C22_Witness ==
    /\ pc = "poll_app_mode"
    /\ app_mode_prev = 1 /\ event_type_prev = 1
    /\ index = 2 /\ image = index
    /\ prd_frame["AlertStranger"] = image
    /\ prd_frame["EventStat"] = Logo

\* a turn of streamAlert's loop after which the loop goes on
StreamAlertContinues == UIStreamAlert /\ uiPc' = "streaming"

\* the control plane's application mode is Configuring ('ROI Configuration')
ModeIsConfiguration == prd_app_mode = ModeCode("ROI Configuration")

\* C23: streamAlert stops once the application mode has been changed to
\* 'ROI Configuration': a turn of its loop that starts with the mode at
\* Configuring leaves the loop.
C23_StreamStopsOnConfiguration ==
    (uiPc = "streaming" /\ ModeIsConfiguration) => ~ENABLED StreamAlertContinues

\* C24: a polled mode other than Configuring (1), Unset (0) and the
\* unrecognised 3 included, is treated like Streaming (2): the publish of
\* the raw frame leaves the polling loop exactly when the polled mode is not
\* 1, and then the detection, the classification of that frame and the
\* append of its record to camera:0 follow, one each.
C24_NonConfiguringRunsAnalysis ==
    [][ProducerStep =>
           /\ pc = "publish" =>
                  /\ prd_frame'[eventName] = image
                  /\ pc' = "detect" <=> app_mode # 1
                  /\ pc' = "poll_app_mode" <=> app_mode = 1
           /\ pc = "detect" => pc' = "classify" /\ detects' = detects + 1
           /\ pc = "classify" =>
                  /\ pc' = "append"
                  /\ calls' = calls + 1
                  /\ appMetadata'.frame = image
           /\ pc = "append" =>
                  /\ pc' = "capture"
                  /\ camera0' # <<>>
                  /\ camera0'[Len(camera0')].msg = appMetadata
                  /\ xid' = xid + 1
      ]_vars

\* The first frame was published once under the polled mode 3 and its
\* record appended; the second frame is about to be published under the
\* polled mode 0.
C24_Witness ==
    /\ pc = "publish"
    /\ index = 2
    /\ app_mode = 0 /\ app_mode_prev = 3
    /\ camera0 # <<>>
    /\ camera0[Len(camera0)].msg.frame = 1
    /\ detects = 1

\* C25: the capture source is read once per outer iteration and never in
\* the polling loop: no step of an iteration after the read changes the
\* frame, the number of frames read or the frames left in the source, so
\* every publish of a stay in Configuring sets the frame read before the
\* stay; the end of the source is observed only at the read, which the
\* producer reaches only from the construction, from the append of a record
\* or from the read that observed it; and the frame classified and
\* appended is the one read at the top of the iteration.
C25_OneReadPerIteration ==
    [][/\ pc # "capture" => UNCHANGED <<image, index, framesLeft>>
       /\ pc = "capture" /\ ProducerStep =>
              \/ framesLeft = 0 /\ pc' = "done"
                     /\ UNCHANGED <<image, index, framesLeft>>
              \/ /\ framesLeft > 0 /\ pc' = "poll_app_mode"
                 /\ index' = index + 1 /\ image' = index'
                 /\ framesLeft' = framesLeft - 1
       /\ pc' = "done" => pc \in {"capture", "done"}
       /\ pc' = "capture" => pc \in {"construct", "append", "capture"}
       /\ pc = "publish" /\ ProducerStep =>
              image = index /\ prd_frame'[eventName] = image
       /\ pc = "classify" /\ ProducerStep =>
              image = index /\ appMetadata'.frame = image
       /\ pc = "append" /\ ProducerStep =>
              /\ appMetadata.frame = index
              /\ camera0'[Len(camera0')].msg.frame = index
      ]_vars

\* The producer is in a stay in Configuring during the first iteration: the
\* frame was published, then polled again, and the source holds a frame
\* that has not been read.
C25_Witness ==
    /\ pc = "publish"
    /\ app_mode = 1 /\ app_mode_prev = 1
    /\ index = 1 /\ image = index
    /\ prd_frame[eventName] = image
    /\ framesLeft > 0

\* a step of the control surface's script
UIStep == uiPc' # uiPc \/ uiLeft' # uiLeft

\* C26: the control surface writes event_type only in its 'Event Alert
\* Stream' branch, in a write of its own that follows the write of
\* app_mode = 2; in 'ROI Configuration' it writes app_mode = 1 and nothing
\* else to the control plane, whatever event is selected, and reads the raw
\* frame under the selected event's key.
C26_EventTypeWrittenOnlyWhenStreaming ==
    [][UIStep =>
           /\ prd_event_type' # prd_event_type =>
                  /\ uiPc = "set_event_type"
                  /\ uiMode = "Event Alert Stream"
                  /\ prd_app_mode' = prd_app_mode
           /\ uiPc' = "set_event_type" =>
                  /\ uiPc = "set_app_mode"
                  /\ uiMode = "Event Alert Stream"
                  /\ prd_app_mode' = 2
                  /\ prd_event_type' = prd_event_type
           /\ uiPc = "set_event_type" =>
                  prd_event_type' = EventCode(uiEvent)
           /\ uiPc = "set_app_mode" /\ uiMode = "ROI Configuration" =>
                  /\ prd_app_mode' = 1
                  /\ prd_event_type' = prd_event_type
                  /\ uiPc' = "config_get"
           /\ uiPc \in {"config_get", "config_open", "config_dump"} =>
                  /\ uiMode = "ROI Configuration"
                  /\ UNCHANGED <<prd_app_mode, prd_event_type>>
           /\ uiPc = "config_get" => uiView' = prd_frame[uiEvent]
      ]_vars

\* 'ROI Configuration' was selected with the event AlertStranger while the
\* control plane's event_type stays 0: the producer, Configuring, has set
\* the frame it read under EventStat, and the control surface shows the
\* logo it read under AlertStranger.
C26_Witness ==
    /\ uiMode = "ROI Configuration" /\ uiEvent = "AlertStranger"
    /\ uiPc = "config_open"
    /\ prd_app_mode = 1 /\ prd_event_type = 0
    /\ app_mode_prev = 1 /\ event_type_prev = 0
    /\ index = 1
    /\ prd_frame["EventStat"] = index
    /\ prd_frame["AlertStranger"] = Logo
    /\ uiView = Logo

\* the settings file the producer's reload opens
ReloadedFile == files[eventName_map[event_type]]

\* C27: nothing keeps the producer's reload and the control surface's
\* write of a settings file apart: the open for writing leaves the file
\* truncated until the dump completes, the reload is not held back while
\* the control surface is between the two, and a reload that reads the file
\* then sees the incomplete document (json.load raises on it and the region
\* set stays as it was).
C27_ReloadSeesTruncatedFile ==
    [][/\ uiPc = "config_open" /\ uiPc' = "config_dump" =>
              /\ files'[uiEvent] = Partial
              /\ pc' = pc
       /\ uiPc = "config_dump" => files[uiEvent] = Partial
       /\ uiPc = "config_dump" /\ pc = "reload" => ENABLED Reload
       /\ pc = "reload" /\ ProducerStep /\ PolledChange
          /\ ReloadedFile = Partial =>
              /\ pc' = "crashed"
              /\ contourROI' = contourROI
      ]_vars

\* The producer observed the change of the mode to Configuring and its
\* reload read EventStat.json after the control surface had opened it for
\* writing and before the dump.
C27_Witness ==
    /\ pc = "crashed"
    /\ app_mode = 1 /\ app_mode_prev # 1
    /\ event_type = 0
    /\ uiPc = "config_dump" /\ uiEvent = "EventStat"
    /\ ReloadedFile = Partial
    /\ index = 1

(***************************************************************************)
(* Claims about a handler's call: the call without a frame, the threshold  *)
(* of the pipeline's calls and monitorVehicle's presence label.            *)
(***************************************************************************)
\* C28: a call of findEventStat, alertStrangerIntrusion or monitorVehicle
\* without a frame (img = None) raises nothing: it returns the counts of
\* the regions and the tagged detections, with nothing rendered.
C28_NoFrameReturnsCounts ==
    (pc = "returned" /\ ~args.img) =>
        /\ ret.raised = "no"
        /\ ret.varApp = VarApp(Regions, Kept)
        /\ ret.boxes = TaggedBoxes(Regions, Kept)

\* the call is the one the pipeline makes on the detector's results
FromPipeline == detects > 0

\* the detections passed that score above the handlers' default threshold
\* and are of a class the handler keeps
AboveDefault ==
    SelectSeq(args.np_boxes,
              LAMBDA box : /\ box.score > DefaultThreshold
                           /\ box.cls \in ClaimedClasses(args.handler))

\* C29: in the pipeline's call the handler's score threshold is the default
\* 0.5 whatever threshold the command line gave the detector: a detection
\* the detector returned with a score of at most 0.5 is in no region's
\* count and in no entry of the tagged list.
C29_PipelineThresholdIsDefault ==
    FromPipeline =>
        /\ args.threshold = DefaultThreshold
        /\ Returned =>
              /\ \A k \in 1..Len(ret.boxes) :
                    ret.boxes[k].box.score > DefaultThreshold
              /\ ret.varApp = VarApp(Regions, AboveDefault)
              /\ ret.boxes = TaggedBoxes(Regions, AboveDefault)

\* the detector returned two detections with their centre in the one
\* region, the first scoring 0.4: the second alone is counted
C29_Witness ==
    /\ FromPipeline /\ Returned
    /\ contourROI = 1
    /\ Len(args.np_boxes) = 2
    /\ args.np_boxes[1].score = 40 /\ args.np_boxes[2].score = 90
    /\ TestedPoint(args.np_boxes[1]) = <<2, 2>>
    /\ TestedPoint(args.np_boxes[2]) = <<2, 2>>
    /\ ret.varApp[1] = 1
    /\ Len(ret.boxes) = 1 /\ ret.boxes[1].box = args.np_boxes[2]

\* C30: in monitorVehicle the presence label of an occupied region i names
\* the class of a detection the handler found in region i.
C30_PresenceLabelNamesOccupant ==
    (Returned /\ args.handler = "monitorVehicle") =>
        \A k \in 1..Len(ret.labels) :
            ret.labels[k].kind = "My" =>
                \E j \in 1..Len(ret.boxes) :
                    /\ ret.boxes[j].roi = ret.labels[k].roi
                    /\ ObjectName(ret.boxes[j].box.cls) = ret.labels[k].obj

==========================================================================
